---- MODULE Spec2Model ----
(***************************************************************************)
(* Model of ufo/llm/gemini.py: GeminiService.chat_completion and the       *)
(* helpers it calls (process_messages, base64_to_blob,                     *)
(* get_text_from_all_candidates).                                          *)
(*                                                                         *)
(* Data representation                                                     *)
(*   - a Python str is a sequence of one-character strings; the literal    *)
(*     label of a system prompt and the pieces of a data URL are kept as   *)
(*     multi-character chunks of such a sequence;                          *)
(*   - Optional values: None is <<>>, a present value v is <<v>>;          *)
(*   - a call that may raise yields Ok(v) or Raise(exception class);       *)
(*   - money is counted in integer units (the code uses floats).           *)
(***************************************************************************)
EXTENDS Integers, Sequences, FiniteSets, TLC

VARIABLES
    pc,               \* position of the current invocation
    config,           \* self.config / self.model_name / self.max_retry
    messages,         \* argument messages (a list, or one bare dict)
    args,             \* arguments n, temperature, max_tokens, top_p
    gemini_messages,  \* local gemini_messages
    genai_config,     \* local genai_config
    sent,             \* what the last generate_content call was handed
    response,         \* local response
    cost,             \* local cost
    result,           \* the returned (results, cost) pair's results
    exc,              \* exception caught by the except clause
    raised,           \* exception that left chat_completion
    remote_calls      \* generate_content calls issued in this invocation

vars == <<pc, config, messages, args, gemini_messages, genai_config, sent,
          response, cost, result, exc, raised, remote_calls>>

----------------------------------------------------------------------------
\* Bounds

\* process_messages alone: messages plus content parts of one input
MaxItems == 5
\* chat_completion: messages plus content parts of one input
CallItems == 4
\* get_text_from_all_candidates alone: candidates plus parts of one response
RespItems == 5

----------------------------------------------------------------------------
\* Python values

None == <<>>
Some(v) == <<v>>
Get(opt, default) == IF opt = None THEN default ELSE opt[1]

Ok(v) == [ok |-> TRUE, val |-> v, err |-> "none"]
Raise(e) == [ok |-> FALSE, val |-> <<>>, err |-> e]

\* binascii.Error is a subclass of ValueError
IsInstance(e, cls) ==
    \/ e = cls
    \/ (cls = "ValueError" /\ e = "binascii.Error")
    \/ (cls = "Exception" /\ e # "none")

RECURSIVE Concat(_)
Concat(ss) == IF ss = <<>> THEN <<>> ELSE Head(ss) \o Concat(Tail(ss))

Min(S) == CHOOSE x \in S : \A y \in S : x <= y

----------------------------------------------------------------------------
\* str.split() with no argument: maximal runs of non-whitespace characters

IsSpace(c) == c \in {" ", "\t", "\n"}

RECURSIVE WordEnd(_, _)
WordEnd(s, i) ==
    IF i > Len(s) \/ IsSpace(s[i]) THEN i - 1 ELSE WordEnd(s, i + 1)

RECURSIVE split(_)
split(s) ==
    IF s = <<>> THEN <<>>
    ELSE IF IsSpace(Head(s)) THEN split(Tail(s))
    ELSE LET e == WordEnd(s, 1)
         IN  <<SubSeq(s, 1, e)>> \o split(SubSeq(s, e + 1, Len(s)))

----------------------------------------------------------------------------
\* Data URLs.  A URL is a sequence of pieces; no concatenation of pieces
\* contains "data:image/" or ";base64," other than as whole pieces, so
\* matching piece by piece is matching character by character.

PieceChars(t) ==
    CASE t = "data:"    -> <<"d", "a", "t", "a", ":">>
      [] t = "image/"   -> <<"i", "m", "a", "g", "e", "/">>
      [] t = "text/"    -> <<"t", "e", "x", "t", "/">>
      [] t = "png"      -> <<"p", "n", "g">>
      [] t = ";base64," -> <<";", "b", "a", "s", "e", "6", "4", ",">>
      [] t = "QUJD"     -> <<"Q", "U", "J", "D">>
      [] t = "QQ=="     -> <<"Q", "Q", "=", "=">>

RECURSIVE UrlChars(_)
UrlChars(u) == IF u = <<>> THEN <<>> ELSE PieceChars(Head(u)) \o UrlChars(Tail(u))

\* Position of a character in the base64 alphabet, 64 when it is not in it
B64Index(c) ==
    CASE c = "D" -> 3   [] c = "J" -> 9   [] c = "Q" -> 16  [] c = "U" -> 20
      [] c = "a" -> 26  [] c = "b" -> 27  [] c = "d" -> 29  [] c = "e" -> 30
      [] c = "g" -> 32  [] c = "i" -> 34  [] c = "m" -> 38  [] c = "n" -> 39
      [] c = "p" -> 41  [] c = "s" -> 44  [] c = "t" -> 45  [] c = "x" -> 49
      [] c = "4" -> 56  [] c = "6" -> 58  [] c = "/" -> 63
      [] OTHER -> 64

\* base64.b64decode(s) with validate=False: characters outside the alphabet
\* are discarded, decoding stops at a complete padding, and leftover
\* characters of an unfinished quad raise binascii.Error.
RECURSIVE a2b_base64(_, _, _, _, _)
a2b_base64(cs, quad_pos, leftchar, pads, out) ==
    IF cs = <<>>
    THEN IF quad_pos # 0 THEN Raise("binascii.Error") ELSE Ok(out)
    ELSE LET c == Head(cs)
             v == B64Index(c)
         IN  IF c = "="
             THEN IF quad_pos >= 2 /\ quad_pos + pads + 1 >= 4
                  THEN Ok(out)
                  ELSE a2b_base64(Tail(cs), quad_pos, leftchar,
                                  IF quad_pos >= 2 THEN pads + 1 ELSE pads, out)
             ELSE IF v >= 64
             THEN a2b_base64(Tail(cs), quad_pos, leftchar, pads, out)
             ELSE CASE quad_pos = 0 ->
                         a2b_base64(Tail(cs), 1, v, 0, out)
                    [] quad_pos = 1 ->
                         a2b_base64(Tail(cs), 2, v % 16, 0,
                                    Append(out, leftchar * 4 + v \div 16))
                    [] quad_pos = 2 ->
                         a2b_base64(Tail(cs), 3, v % 4, 0,
                                    Append(out, leftchar * 16 + v \div 4))
                    [] quad_pos = 3 ->
                         a2b_base64(Tail(cs), 0, 0, 0,
                                    Append(out, leftchar * 64 + v))

b64decode(s) == a2b_base64(UrlChars(s), 0, 0, 0, <<>>)

\* variant: the pattern without its image/ prefix
re_match_any_mime(url) ==
    LET marks == {i \in 4..(Len(url) - 1) : url[i] = ";base64,"}
    IN  IF Len(url) >= 2 /\ url[1] = "data:" /\ marks # {}
        THEN LET i == Min(marks)
             IN  Some([mime_type     |-> SubSeq(url, 2, i - 1),
                       base64_string |-> SubSeq(url, i + 1, Len(url))])
        ELSE None

\* re.match(r'data:(?P<mime_type>image/.+?);base64,(?P<base64_string>.+)', url):
\* anchored at the start; the lazy group ends at the first ";base64," that
\* leaves at least one character on each side.
re_match(url) ==
    LET marks == {i \in 4..(Len(url) - 1) : url[i] = ";base64,"}
    IN  IF Len(url) >= 2 /\ url[1] = "data:" /\ url[2] = "image/" /\ marks # {}
        THEN LET i == Min(marks)
             IN  Some([mime_type     |-> SubSeq(url, 2, i - 1),
                       base64_string |-> SubSeq(url, i + 1, Len(url))])
        ELSE None

base64_to_blob(base64_str) ==
    LET match == re_match(base64_str)
    IN  IF match # None
        THEN LET data == b64decode(match[1].base64_string)
             IN  IF data.ok
                 THEN Ok([mime_type |-> match[1].mime_type, data |-> data.val])
                 ELSE data
        ELSE Raise("ValueError")

----------------------------------------------------------------------------
\* Chat messages and their translation

StrContent(s) == [isstr |-> TRUE, str |-> s, parts |-> <<>>]
ListContent(ps) == [isstr |-> FALSE, str |-> <<>>, parts |-> ps]
Message(role, content) == [role |-> role, content |-> content]

TextPart(s) == [type |-> "text", text |-> s, url |-> <<>>]
ImagePart(u) == [type |-> "image_url", text |-> <<>>, url |-> u]
OtherPart == [type |-> "input_audio", text |-> <<>>, url |-> <<>>]

\* the argument is a list of messages or one bare dict
AsList(ms) == [isdict |-> FALSE, value |-> ms]
AsDict(m) == [isdict |-> TRUE, value |-> m]

\* elements of the translated prompt
StrElem(s) == [kind |-> "str", str |-> s, mime_type |-> <<>>, data |-> <<>>]
BlobElem(m, d) == [kind |-> "blob", str |-> <<>>, mime_type |-> m, data |-> d]

\* variant: the system content without its label
system_prompt_bare(content) == content

\* f"Your general instruction: {message['content']}"
system_prompt(content) == <<"Your general instruction: ">> \o content

\* the inner loop over message["content"]
RECURSIVE process_content(_, _)
process_content(content, prompt_contents) ==
    IF content = <<>> THEN Ok(prompt_contents)
    ELSE LET c == Head(content)
         IN  IF c.type = "text"
             THEN process_content(Tail(content),
                                  Append(prompt_contents, StrElem(c.text)))
             ELSE IF c.type = "image_url"
             THEN LET prompt == base64_to_blob(c.url)
                  IN  IF prompt.ok
                      THEN process_content(Tail(content),
                               Append(prompt_contents,
                                      BlobElem(prompt.val.mime_type, prompt.val.data)))
                      ELSE prompt
             ELSE process_content(Tail(content), prompt_contents)

\* the outer loop over messages
RECURSIVE process_list(_, _)
process_list(ms, prompt_contents) ==
    IF ms = <<>> THEN Ok(prompt_contents)
    ELSE LET message == Head(ms)
         IN  IF message.role = "system"
             THEN process_list(Tail(ms),
                      Append(prompt_contents,
                             StrElem(system_prompt(message.content.str))))
             ELSE LET inner == process_content(message.content.parts, prompt_contents)
                  IN  IF inner.ok THEN process_list(Tail(ms), inner.val) ELSE inner

process_messages(ms) ==
    process_list(IF ms.isdict THEN <<ms.value>> ELSE ms.value, <<>>)

----------------------------------------------------------------------------
\* Responses of the provider and the extraction of their text

\* a part: its text (None when the attribute is missing or not a str), its
\* thought flag (None when the attribute is missing) and the names of its
\* other non-null fields, in __dict__ order
ResponsePart(text, thought, fields) ==
    [text |-> text, thought |-> thought, fields |-> fields]

\* a candidate: "none" is a falsy candidate, "nocontent" has no content
\* attribute, "noparts" has a content without parts
Candidate(parts) == [kind |-> "ok", parts |-> parts]
BrokenCandidate(kind) == [kind |-> kind, parts |-> <<>>]

\* a response: "none" is a falsy response, "noattr" has no candidates attribute
Response(candidates) == [kind |-> "obj", candidates |-> candidates]
NoneResponse == [kind |-> "none", candidates |-> <<>>]
NoAttrResponse == [kind |-> "noattr", candidates |-> <<>>]

Warning(i, kind, fields) == [candidate |-> i, kind |-> kind, fields |-> fields]

\* hasattr(part, 'text') and isinstance(part.text, str)
has_text(part) == part.text # None

\* variant: thought parts are not told apart
is_thought_never(part) == FALSE

\* hasattr(part, 'thought') and part.thought
is_thought(part) == part.thought # None /\ part.thought[1]

\* the scan of part.__dict__ for fields other than text and thought
RECURSIVE note_fields(_, _)
note_fields(non_text_parts_found, fields) ==
    IF fields = <<>> THEN non_text_parts_found
    ELSE note_fields(
             IF \E k \in 1..Len(non_text_parts_found) :
                    non_text_parts_found[k] = Head(fields)
             THEN non_text_parts_found
             ELSE Append(non_text_parts_found, Head(fields)),
             Tail(fields))

\* the loop over candidate.content.parts
RECURSIVE parts_loop(_, _, _, _)
parts_loop(parts, candidate_text, any_text_part_found, non_text_parts_found) ==
    IF parts = <<>>
    THEN [candidate_text       |-> candidate_text,
          any_text_part_found  |-> any_text_part_found,
          non_text_parts_found |-> non_text_parts_found]
    ELSE LET part == Head(parts)
             found == note_fields(non_text_parts_found, part.fields)
         IN  IF has_text(part) /\ ~is_thought(part)
             THEN parts_loop(Tail(parts), candidate_text \o part.text[1], TRUE, found)
             ELSE parts_loop(Tail(parts), candidate_text, any_text_part_found, found)

\* variant: a candidate without content or parts ends the loop (break for
\* continue)
RECURSIVE candidates_loop_break(_, _, _, _)
candidates_loop_break(candidates, i, all_texts, warnings) ==
    IF candidates = <<>>
    THEN [all_texts |-> all_texts, warnings |-> warnings]
    ELSE LET candidate == Head(candidates)
         IN  IF candidate.kind # "ok"
             THEN [all_texts |-> Append(all_texts, None),
                   warnings  |-> Append(warnings, Warning(i, "no_content", <<>>))]
             ELSE LET scan == parts_loop(candidate.parts, <<>>, FALSE, <<>>)
                  IN  candidates_loop_break(Tail(candidates), i + 1,
                          Append(all_texts,
                                 IF scan.any_text_part_found
                                 THEN Some(scan.candidate_text) ELSE None),
                          IF scan.non_text_parts_found # <<>>
                          THEN Append(warnings,
                                      Warning(i, "non_text", scan.non_text_parts_found))
                          ELSE warnings)

\* the loop over response.candidates
RECURSIVE candidates_loop(_, _, _, _)
candidates_loop(candidates, i, all_texts, warnings) ==
    IF candidates = <<>>
    THEN [all_texts |-> all_texts, warnings |-> warnings]
    ELSE LET candidate == Head(candidates)
         IN  IF candidate.kind # "ok"
             THEN candidates_loop(Tail(candidates), i + 1,
                      Append(all_texts, None),
                      Append(warnings, Warning(i, "no_content", <<>>)))
             ELSE LET scan == parts_loop(candidate.parts, <<>>, FALSE, <<>>)
                  IN  candidates_loop(Tail(candidates), i + 1,
                          Append(all_texts,
                                 IF scan.any_text_part_found
                                 THEN Some(scan.candidate_text) ELSE None),
                          IF scan.non_text_parts_found # <<>>
                          THEN Append(warnings,
                                      Warning(i, "non_text", scan.non_text_parts_found))
                          ELSE warnings)

get_text_from_all_candidates(resp) ==
    IF resp.kind # "obj"
    THEN [all_texts |-> <<>>, warnings |-> <<Warning(-1, "no_candidates", <<>>)>>]
    ELSE candidates_loop(resp.candidates, 0, <<>>, <<>>)

\* response.text, the provider library's quick accessor: the joined text of
\* the first candidate's parts; it raises when there is no such part, and
\* reading it from None raises AttributeError.
RECURSIVE join_text(_)
join_text(parts) ==
    IF parts = <<>> THEN <<>>
    ELSE (IF Head(parts).text # None THEN Head(parts).text[1] ELSE <<>>)
             \o join_text(Tail(parts))

response_text(resp) ==
    IF resp.kind # "obj" THEN Raise("AttributeError")
    ELSE IF resp.candidates = <<>> THEN Raise("ValueError")
    ELSE IF resp.candidates[1].kind # "ok" THEN Raise("AttributeError")
    ELSE IF resp.candidates[1].parts = <<>> THEN Raise("ValueError")
    ELSE Ok(join_text(resp.candidates[1].parts))

----------------------------------------------------------------------------
\* chat_completion: generation config and cost estimate

Args(n, temperature, max_tokens, top_p) ==
    [n |-> n, temperature |-> temperature, max_tokens |-> max_tokens, top_p |-> top_p]

\* variant: <arg> or self.config[<KEY>]
resolve_truthy(arg, default) ==
    IF arg # None /\ arg[1] # 0 THEN arg ELSE Some(default)

\* <arg> if <arg> is not None else self.config[<KEY>]
resolve(arg, default) == IF arg # None THEN arg ELSE Some(default)

genai_config_of(a, cfg) ==
    [max_output_tokens |-> resolve(a.max_tokens, cfg.MAX_TOKENS),
     temperature       |-> resolve(a.temperature, cfg.TEMPERATURE),
     top_p             |-> resolve(a.top_p, cfg.TOP_P)]

\* variant: tracking is on unless switched off
cost_tracking_default_on(cfg) == Get(cfg.ENABLE_COST_TRACKING, TRUE)

\* self.config.get("ENABLE_COST_TRACKING", False)
cost_tracking_enabled(cfg) == Get(cfg.ENABLE_COST_TRACKING, FALSE)

\* model_costs.get(model_name, {}).get(<key>, 0.0)
unit_cost(cfg, key) ==
    LET model_costs == Get(cfg.MODEL_COSTS, <<>>)
    IN  IF cfg.API_MODEL \in DOMAIN model_costs
        THEN model_costs[cfg.API_MODEL][key]
        ELSE 0

\* sum(len(msg.get("content", "").split()) for msg in messages): iterating a
\* bare dict yields its keys, and a str has no get; a list has no split
RECURSIVE sum_words(_, _)
sum_words(ms, acc) ==
    IF ms = <<>> THEN Ok(acc)
    ELSE IF ~Head(ms).content.isstr THEN Raise("AttributeError")
    ELSE sum_words(Tail(ms), acc + Len(split(Head(ms).content.str)))

input_tokens(ms) ==
    IF ms.isdict THEN Raise("AttributeError") ELSE sum_words(ms.value, 0)

\* lines 77-88; the cost stays 0.0 when tracking is off
estimate_cost(ms, resp, cfg) ==
    IF ~cost_tracking_enabled(cfg) THEN Ok(0)
    ELSE LET in == input_tokens(ms)
             out == response_text(resp)
         IN  IF ~in.ok THEN in
             ELSE IF ~out.ok THEN out
             ELSE Ok(in.val * unit_cost(cfg, "input_cost")
                     + Len(split(out.val)) * unit_cost(cfg, "output_cost"))

\* variant: a failed remote call is tried again while the budget lasts
except_target_retry(retry_budget, attempts) ==
    IF attempts >= 1 /\ attempts <= retry_budget THEN "generate_content" ELSE "raised"

\* the except clause reports and re-raises; self.max_retry is never read
except_target(retry_budget, attempts) == "raised"

NotSent == [contents |-> <<>>, generation_config |-> <<>>]

\* one whole invocation, given the outcome of the remote call
chat_completion(ms, a, cfg, remote) ==
    LET t == process_messages(ms)
        g == genai_config_of(a, cfg)
        c == estimate_cost(ms, remote.val, cfg)
        handed == [contents |-> t.val, generation_config |-> g]
    IN  IF ~t.ok
        THEN [sent |-> NotSent, raised |-> t.err, results |-> <<>>, cost |-> 0]
        ELSE IF ~remote.ok
        THEN [sent |-> handed, raised |-> remote.err, results |-> <<>>, cost |-> 0]
        ELSE IF ~c.ok
        THEN [sent |-> handed, raised |-> c.err, results |-> <<>>, cost |-> 0]
        ELSE [sent |-> handed, raised |-> "none",
              results |-> get_text_from_all_candidates(remote.val).all_texts,
              cost |-> c.val]

----------------------------------------------------------------------------
\* Inputs

PngABC == <<"data:", "image/", "png", ";base64,", "QUJD">>
PngPadded == <<"data:", "image/", "png", ";base64,", "QQ==", "QUJD">>
NoMarker == <<"data:", "image/", "png", "QUJD">>
NotImage == <<"data:", "text/", "png", ";base64,", "QUJD">>
BadPayload == <<"data:", "image/", "png", ";base64,", "png">>

\* a message without parts yet: a system message, or another role's empty list
Heads(sys, roles) ==
    {Message("system", StrContent(s)) : s \in sys}
        \cup {Message(r, ListContent(<<>>)) : r \in roles}

\* a message list weighs its messages plus their content parts
RECURSIVE Weight(_)
Weight(ms) ==
    IF ms = <<>> THEN 0 ELSE 1 + Len(Head(ms).content.parts) + Weight(Tail(ms))

WithPart(ms, p) ==
    [ms EXCEPT ![Len(ms)].content.parts = Append(@, p)]

TranslateHeads == Heads({<<"a">>, <<"b">>}, {"user", "assistant"})

TranslateParts ==
    {TextPart(<<"a">>), TextPart(<<"b">>), OtherPart}
        \cup {ImagePart(u) : u \in {PngABC, PngPadded, NoMarker, NotImage, BadPayload}}

CallHeads == Heads({<<>>, <<"a">>, <<" ", "a", "\t", "b", "\n">>}, {"user"})

CallParts ==
    {TextPart(<<"a", " ", "b">>), OtherPart}
        \cup {ImagePart(u) : u \in {PngABC, NoMarker, NotImage, BadPayload}}

DefaultArgs == Args(1, None, None, None)

Overrides == {None, Some(0), Some(1)}

OverrideArgs ==
    {Args(n, t, m, p) : n \in {1, 2}, t \in Overrides, m \in Overrides, p \in Overrides}

OverrideInputs ==
    {AsList(<<Message("system", StrContent(<<"a">>))>>),
     AsDict(Message("user", ListContent(<<TextPart(<<"a">>)>>)))}

Prices == [input_cost |-> 2, output_cost |-> 3]

Configs ==
    [API_MODEL            : {"gemini-pro"},
     MAX_RETRY            : {0, 3},
     MAX_TOKENS           : {2000},
     TEMPERATURE          : {5},
     TOP_P                : {9},
     ENABLE_COST_TRACKING : {None, Some(FALSE), Some(TRUE)},
     MODEL_COSTS          : {None, Some("gemini-pro" :> Prices),
                             Some("gemini-flash" :> Prices)}]

ResponseParts ==
    {ResponsePart(Some(<<"a">>), None, <<>>),
     ResponsePart(Some(<<"b">>), Some(FALSE), <<>>),
     ResponsePart(Some(<<>>), None, <<>>),
     ResponsePart(Some(<<"t">>), Some(TRUE), <<>>),
     ResponsePart(None, None, <<"function_call">>),
     ResponsePart(Some(<<"a">>), None, <<"inline_data">>)}

CandidateHeads ==
    {BrokenCandidate(k) : k \in {"none", "nocontent", "noparts"}} \cup {Candidate(<<>>)}

\* a response weighs its candidates plus their parts
RECURSIVE ResponseWeight(_)
ResponseWeight(cs) ==
    IF cs = <<>> THEN 0 ELSE 1 + Len(Head(cs).parts) + ResponseWeight(Tail(cs))

Words(s) == ResponsePart(Some(s), None, <<>>)

CallResponses ==
    {NoneResponse, NoAttrResponse, Response(<<>>),
     Response(<<BrokenCandidate("nocontent")>>),
     Response(<<Candidate(<<ResponsePart(Some(<<"t">>), Some(TRUE), <<>>)>>)>>),
     Response(<<Candidate(<<Words(<<"a", " ", "b">>)>>)>>),
     Response(<<Candidate(<<Words(<<"a">>), Words(<<" ", "b", " ", "c">>)>>),
                Candidate(<<Words(<<"d">>)>>)>>)}

RemoteErrors == {"PermissionDenied", "DeadlineExceeded"}

RemoteOutcomes == {Ok(r) : r \in CallResponses} \cup {Raise(e) : e \in RemoteErrors}

----------------------------------------------------------------------------
\* chat_completion, step by step

Idle(cfg) ==
    /\ pc = "idle"
    /\ config = cfg
    /\ messages = AsList(<<>>)
    /\ args = DefaultArgs
    /\ gemini_messages = <<>>
    /\ genai_config = <<>>
    /\ sent = NotSent
    /\ response = NoneResponse
    /\ cost = 0
    /\ result = <<>>
    /\ exc = "none"
    /\ raised = "none"
    /\ remote_calls = 0

\* __init__: the service holds its configuration
Init == \E cfg \in Configs : Idle(cfg)

\* the caller puts the request together: one more message ...
AddMessage(limit, heads) ==
    /\ pc = "idle"
    /\ Weight(messages.value) < limit
    /\ \E m \in heads : messages' = AsList(Append(messages.value, m))
    /\ UNCHANGED <<pc, config, args, gemini_messages, genai_config, sent, response,
                   cost, result, exc, raised, remote_calls>>

\* ... or one more content part in the last message
AddPart(limit, parts) ==
    /\ pc = "idle"
    /\ messages.value # <<>>
    /\ ~messages.value[Len(messages.value)].content.isstr
    /\ Weight(messages.value) < limit
    /\ \E p \in parts : messages' = AsList(WithPart(messages.value, p))
    /\ UNCHANGED <<pc, config, args, gemini_messages, genai_config, sent, response,
                   cost, result, exc, raised, remote_calls>>

ComposeMessage == AddMessage(CallItems, CallHeads)

ComposePart == AddPart(CallItems, CallParts)

\* entry: response = None, cost = 0.0
Enter(ms, a) ==
    /\ pc = "idle"
    /\ messages' = ms
    /\ args' = a
    /\ response' = NoneResponse
    /\ cost' = 0
    /\ pc' = "process_messages"
    /\ UNCHANGED <<config, gemini_messages, genai_config, sent, result, exc,
                   raised, remote_calls>>

\* chat_completion(messages) with a list of messages
Call ==
    /\ pc = "idle"
    /\ messages.value # <<>>
    /\ Enter(messages, DefaultArgs)

\* chat_completion(message) with one bare message
CallBare ==
    /\ pc = "idle"
    /\ Len(messages.value) = 1
    /\ Enter(AsDict(messages.value[1]), DefaultArgs)

CallWithOverrides ==
    /\ pc = "idle"
    /\ \E ms \in OverrideInputs, a \in OverrideArgs : Enter(ms, a)

\* gemini_messages = self.process_messages(messages)
ProcessMessages ==
    /\ pc = "process_messages"
    /\ LET t == process_messages(messages)
       IN  IF t.ok
           THEN /\ gemini_messages' = t.val
                /\ pc' = "genai_config"
                /\ exc' = exc
           ELSE /\ exc' = t.err
                /\ pc' = "except"
                /\ gemini_messages' = gemini_messages
    /\ UNCHANGED <<config, messages, args, genai_config, sent, response, cost,
                   result, raised, remote_calls>>

\* genai_config = {...}
Configure ==
    /\ pc = "genai_config"
    /\ genai_config' = genai_config_of(args, config)
    /\ pc' = "generate_content"
    /\ UNCHANGED <<config, messages, args, gemini_messages, sent, response, cost,
                   result, exc, raised, remote_calls>>

\* response = self.model.generate_content(contents=..., generation_config=...)
GenerateContent ==
    /\ pc = "generate_content"
    /\ remote_calls' = remote_calls + 1
    /\ sent' = [contents |-> gemini_messages, generation_config |-> genai_config]
    /\ \E remote \in RemoteOutcomes :
           IF remote.ok
           THEN /\ response' = remote.val
                /\ pc' = "cost"
                /\ exc' = exc
           ELSE /\ exc' = remote.err
                /\ pc' = "except"
                /\ response' = response
    /\ UNCHANGED <<config, messages, args, gemini_messages, genai_config, cost,
                   result, raised>>

\* if self.config.get("ENABLE_COST_TRACKING", False): ... cost = ...
TrackCost ==
    /\ pc = "cost"
    /\ LET c == estimate_cost(messages, response, config)
       IN  IF c.ok
           THEN /\ cost' = c.val
                /\ pc' = "return"
                /\ exc' = exc
           ELSE /\ exc' = c.err
                /\ pc' = "except"
                /\ cost' = cost
    /\ UNCHANGED <<config, messages, args, gemini_messages, genai_config, sent,
                   response, result, raised, remote_calls>>

\* return self.get_text_from_all_candidates(response), cost
Return ==
    /\ pc = "return"
    /\ result' = get_text_from_all_candidates(response).all_texts
    /\ pc' = "returned"
    /\ UNCHANGED <<config, messages, args, gemini_messages, genai_config, sent,
                   response, cost, exc, raised, remote_calls>>

\* except Exception as e: print(...); raise e
Except ==
    /\ pc = "except"
    /\ pc' = except_target(config.MAX_RETRY, remote_calls)
    /\ raised' = IF pc' = "raised" THEN exc ELSE raised
    /\ UNCHANGED <<config, messages, args, gemini_messages, genai_config, sent,
                   response, cost, result, exc, remote_calls>>

Steps == ProcessMessages \/ Configure \/ GenerateContent \/ TrackCost \/ Return \/ Except

Next == ComposeMessage \/ ComposePart \/ Call \/ CallBare \/ Steps

Spec == Init /\ [][Next]_vars

\* the same invocation, over every combination of the optional arguments
NextOverrides == CallWithOverrides \/ Steps

SpecOverrides == Init /\ [][NextOverrides]_vars

----------------------------------------------------------------------------
\* process_messages on its own

InitTranslate == Idle(CHOOSE cfg \in Configs : TRUE)

TranslateMessage == AddMessage(MaxItems, TranslateHeads)

TranslatePart == AddPart(MaxItems, TranslateParts)

Translated(ms) ==
    /\ pc = "idle"
    /\ messages' = ms
    /\ LET t == process_messages(ms)
       IN  IF t.ok
           THEN /\ gemini_messages' = t.val
                /\ pc' = "returned"
                /\ raised' = raised
           ELSE /\ raised' = t.err
                /\ pc' = "raised"
                /\ gemini_messages' = gemini_messages
    /\ UNCHANGED <<config, args, genai_config, sent, response, cost, result, exc,
                   remote_calls>>

\* process_messages(messages) with a list of messages
Translate ==
    /\ pc = "idle"
    /\ Translated(messages)

\* process_messages(message) with one bare message
TranslateBare ==
    /\ pc = "idle"
    /\ Len(messages.value) = 1
    /\ Translated(AsDict(messages.value[1]))

NextTranslate == TranslateMessage \/ TranslatePart \/ Translate \/ TranslateBare

SpecTranslate == InitTranslate /\ [][NextTranslate]_vars

----------------------------------------------------------------------------
\* get_text_from_all_candidates on its own

InitExtract ==
    \E r \in {NoneResponse, NoAttrResponse, Response(<<>>)} :
        /\ pc = "idle"
        /\ response = r
        /\ config = CHOOSE cfg \in Configs : TRUE
        /\ messages = AsList(<<>>)
        /\ args = DefaultArgs
        /\ gemini_messages = <<>>
        /\ genai_config = <<>>
        /\ sent = NotSent
        /\ cost = 0
        /\ result = <<>>
        /\ exc = "none"
        /\ raised = "none"
        /\ remote_calls = 0

\* the provider's reply grows by one candidate ...
ReceiveCandidate ==
    /\ pc = "idle"
    /\ response.kind = "obj"
    /\ ResponseWeight(response.candidates) < RespItems
    /\ \E c \in CandidateHeads : response' = Response(Append(response.candidates, c))
    /\ UNCHANGED <<pc, config, messages, args, gemini_messages, genai_config, sent,
                   cost, result, exc, raised, remote_calls>>

\* ... or by one part of its last candidate
ReceivePart ==
    /\ pc = "idle"
    /\ response.kind = "obj"
    /\ response.candidates # <<>>
    /\ response.candidates[Len(response.candidates)].kind = "ok"
    /\ ResponseWeight(response.candidates) < RespItems
    /\ \E p \in ResponseParts :
           response' = Response([response.candidates EXCEPT
                                    ![Len(response.candidates)].parts = Append(@, p)])
    /\ UNCHANGED <<pc, config, messages, args, gemini_messages, genai_config, sent,
                   cost, result, exc, raised, remote_calls>>

Extract ==
    /\ pc = "idle"
    /\ result' = get_text_from_all_candidates(response).all_texts
    /\ pc' = "returned"
    /\ UNCHANGED <<config, messages, args, gemini_messages, genai_config, sent,
                   response, cost, exc, raised, remote_calls>>

NextExtract == ReceiveCandidate \/ ReceivePart \/ Extract

SpecExtract == InitExtract /\ [][NextExtract]_vars

----------------------------------------------------------------------------
\* Properties

Finished == pc \in {"returned", "raised"}

\* the messages of the input, a bare message counting as a list of one
InputMessages == IF messages.isdict THEN <<messages.value>> ELSE messages.value

\* the remote call was issued and came back with a response
RemoteSucceeded == remote_calls >= 1 /\ exc \notin RemoteErrors

PartElements(p) ==
    IF p.type = "text" THEN <<StrElem(p.text)>>
    ELSE IF p.type = "image_url"
    THEN LET blob == base64_to_blob(p.url).val
         IN  <<BlobElem(blob.mime_type, blob.data)>>
    ELSE <<>>

MessageElements(m) ==
    IF m.role = "system"
    THEN <<StrElem(<<"Your general instruction: ">> \o m.content.str)>>
    ELSE Concat([j \in 1..Len(m.content.parts) |-> PartElements(m.content.parts[j])])

Flattening(ms) == Concat([i \in 1..Len(ms) |-> MessageElements(ms[i])])

\* C1: the sequence process_messages returns is the in-order flattening of
\* its input: one labelled string per system message, and for any other
\* message the text of each text part and one blob per image part, in part
\* order, nothing for a part of another type.
C1_InOrderFlattening ==
    pc = "returned" => gemini_messages = Flattening(InputMessages)

C1_Witness ==
    /\ pc = "returned"
    /\ ~messages.isdict
    /\ Len(messages.value) = 2
    /\ messages.value[1].role = "user"
    /\ messages.value[1].content.parts =
           <<ImagePart(PngPadded), OtherPart, TextPart(<<"b">>)>>
    /\ messages.value[2] = Message("system", StrContent(<<"a">>))
    /\ Len(gemini_messages) = 3

InputWords(ms) ==
    IF ms = <<>> THEN 0
    ELSE LET counts == [i \in 1..Len(ms) |->
                           IF ms[i].content.isstr
                           THEN [k \in 1..Len(split(ms[i].content.str)) |-> 1]
                           ELSE <<>>]
         IN  Len(Concat(counts))

\* the text extraction gives for the first candidate, None if there is none
FirstCandidateText(resp) ==
    LET texts == get_text_from_all_candidates(resp).all_texts
    IN  IF texts = <<>> THEN None ELSE texts[1]

OutputWords(resp) ==
    IF FirstCandidateText(resp) = None THEN 0
    ELSE Len(split(FirstCandidateText(resp)[1]))

\* C2: with cost tracking enabled and a successful remote call,
\* chat_completion returns cost = input_words * input_cost + output_words *
\* output_cost, where a message whose content is a list of parts adds no
\* words and does not make the call fail.  Stated for a list of messages and
\* a response whose first candidate has text, so that the input alone decides.
C2_CostOfEveryAcceptedInput ==
    (/\ Finished
     /\ RemoteSucceeded
     /\ config.ENABLE_COST_TRACKING = Some(TRUE)
     /\ ~messages.isdict
     /\ FirstCandidateText(response) # None)
        => /\ pc = "returned"
           /\ cost = InputWords(InputMessages) * unit_cost(config, "input_cost")
                         + OutputWords(response) * unit_cost(config, "output_cost")

\* C3: once translation and the remote call have succeeded, chat_completion
\* returns a pair and raises nothing, whatever the shape of the response,
\* with cost tracking disabled or enabled.  Stated for a list of messages
\* with string content, so that the response alone decides.
C3_ResponseAnomaliesAbsorbed ==
    (/\ Finished
     /\ RemoteSucceeded
     /\ ~messages.isdict
     /\ \A i \in 1..Len(messages.value) : messages.value[i].content.isstr)
        => pc = "returned"

\* C4: a call with one bare message hands the remote call the same content
\* and returns the same (results, cost) pair as the call with the
\* one-element list of that message, for the same configuration and the
\* same outcome of the remote call.
C4_BareMessageAsSingleton ==
    (Finished /\ messages.isdict)
        => LET remote == IF raised \in RemoteErrors THEN Raise(raised) ELSE Ok(response)
               listed == chat_completion(AsList(<<messages.value>>), args, config, remote)
           IN  /\ sent = listed.sent
               /\ (pc = "returned") <=> (listed.raised = "none")
               /\ pc = "returned" => (result = listed.results /\ cost = listed.cost)

\* C5: one invocation issues the remote call at most once; when the remote
\* call raises, that exception leaves chat_completion and no second call is
\* made, whatever MAX_RETRY is.
C5_SingleRemoteCall ==
    /\ remote_calls <= 1
    /\ pc = "raised" => raised = exc
    /\ (pc = "raised" /\ exc \in RemoteErrors) => remote_calls = 1

C5_Witness ==
    /\ pc = "raised"
    /\ raised = "DeadlineExceeded"
    /\ remote_calls = 1
    /\ config.MAX_RETRY = 3

IsQualifying(part) == part.text # None /\ part.thought # Some(TRUE)

ExpectedText(candidate) ==
    LET q == SelectSeq(candidate.parts, IsQualifying)
    IN  IF q = <<>> THEN None
        ELSE Some(Concat([k \in 1..Len(q) |-> q[k].text[1]]))

\* C6: for a candidate with content and parts, the entry is the texts of its
\* parts that have text and are not thought parts, joined in part order, and
\* None exactly when there is no such part; other fields of the parts do not
\* change the entry.
C6_CandidateText ==
    pc = "returned" =>
        \A i \in 1..Len(response.candidates) :
            response.candidates[i].kind = "ok"
                => /\ i \in DOMAIN result
                   /\ result[i] = ExpectedText(response.candidates[i])

C6_Witness ==
    /\ pc = "returned"
    /\ response = Response(<<Candidate(<<ResponsePart(Some(<<"a">>), None, <<"inline_data">>),
                                         ResponsePart(Some(<<"t">>), Some(TRUE), <<>>),
                                         ResponsePart(Some(<<"b">>), Some(FALSE), <<>>)>>)>>)
    /\ result = <<Some(<<"a", "b">>)>>

\* the url has the form data:<mime-type>;base64,<payload> with a mime type
\* that starts with image/
HasImageDataForm(url) ==
    /\ Len(url) >= 3
    /\ url[1] = "data:"
    /\ url[2] = "image/"
    /\ \E i \in 3..Len(url) : url[i] = ";base64,"

HasMalformedImage ==
    \E i \in 1..Len(InputMessages) :
        \E j \in 1..Len(InputMessages[i].content.parts) :
            LET p == InputMessages[i].content.parts[j]
            IN  p.type = "image_url" /\ ~HasImageDataForm(p.url)

\* C7: an image part whose url is not an image data URL makes translation
\* fail with a ValueError: nothing is translated, no remote call is made and
\* the error leaves chat_completion.
C7_MalformedImageIsFatal ==
    (HasMalformedImage /\ pc \notin {"idle", "process_messages"})
        => /\ pc \in {"except", "raised"}
           /\ IsInstance(exc, "ValueError")
           /\ gemini_messages = <<>>
           /\ remote_calls = 0
           /\ pc = "raised" => raised = exc

C7_Witness ==
    /\ pc = "raised"
    /\ raised = "ValueError"
    /\ ~messages.isdict
    /\ Len(messages.value) = 1
    /\ messages.value[1].content.parts =
           <<TextPart(<<"a", " ", "b">>), ImagePart(NotImage)>>

\* C8: extraction yields one entry per candidate, in candidate order: a
\* candidate that is absent or lacks content/parts gives None and later
\* candidates are still processed; no entry at all when the response is
\* absent, has no candidates collection or has zero candidates.
C8_OneEntryPerCandidate ==
    pc = "returned" =>
        IF response.kind # "obj" THEN result = <<>>
        ELSE /\ Len(result) = Len(response.candidates)
             /\ \A i \in 1..Len(result) :
                    /\ response.candidates[i].kind # "ok" => result[i] = None
                    /\ <<result[i]>> =
                           get_text_from_all_candidates(
                               Response(<<response.candidates[i]>>)).all_texts

C8_Witness ==
    /\ pc = "returned"
    /\ Len(response.candidates) = 3
    /\ response.candidates[1].kind = "nocontent"
    /\ response.candidates[2].kind = "none"
    /\ response.candidates[3].kind = "ok"
    /\ result = <<None, None, Some(<<"b">>)>>

\* C9: with ENABLE_COST_TRACKING false or absent, every call that returns
\* yields cost 0, whatever the messages, the price table and the response.
C9_NoTrackingNoCost ==
    (pc = "returned" /\ config.ENABLE_COST_TRACKING \in {None, Some(FALSE)})
        => cost = 0

C9_Witness ==
    /\ pc = "returned"
    /\ config.ENABLE_COST_TRACKING = None
    /\ config.MODEL_COSTS = Some("gemini-pro" :> Prices)
    /\ ~messages.isdict
    /\ messages.value = <<Message("system", StrContent(<<"a">>))>>
    /\ result = <<Some(<<"a", " ", "b">>)>>
    /\ cost = 0

Chosen(arg, default) == IF arg = None THEN Some(default) ELSE Some(arg[1])

StepsAgree ==
    Finished =>
        LET remote == IF raised \in RemoteErrors THEN Raise(raised) ELSE Ok(response)
            whole == chat_completion(messages, args, config, remote)
        IN  /\ sent = whole.sent
            /\ raised = whole.raised
            /\ pc = "returned" => (result = whole.results /\ cost = whole.cost)

====
